---- MODULE Spec2Model ----
(***************************************************************************)
(* see_rnn/inspect_rnn.py: get_rnn_weights, _get_cell_weights and          *)
(* rnn_summary, read-only accessors over the RNN layers of a Keras model.  *)
(*                                                                         *)
(* Python strings are sequences of one-character strings, so that          *)
(* str.replace, the `in` substring test, len and + are computed and not    *)
(* assumed.                                                                *)
(***************************************************************************)
EXTENDS Integers, Sequences, FiniteSets, TLC

\* ---------------------------------------------------------------- strings
s_Cell == <<"C", "e", "l", "l">>
s_CuDNN == <<"C", "u", "D", "N", "N">>
s_SimpleRNN == <<"S", "i", "m", "p", "l", "e", "R", "N", "N">>
s_IndRNN == <<"I", "n", "d", "R", "N", "N">>
s_LSTM == <<"L", "S", "T", "M">>
s_GRU == <<"G", "R", "U">>
s_CuDNNLSTM == <<"C", "u", "D", "N", "N", "L", "S", "T", "M">>
s_CuDNNGRU == <<"C", "u", "D", "N", "N", "G", "R", "U">>
s_Bidirectional == <<"B", "i", "d", "i", "r", "e", "c", "t", "i", "o", "n", "a", "l">>
s_Dense == <<"D", "e", "n", "s", "e">>
s_kernel == <<"k", "e", "r", "n", "e", "l">>
s_recurrent_kernel == <<"r", "e", "c", "u", "r", "r", "e", "n", "t", "_", "k", "e", "r", "n", "e", "l">>
s_bias == <<"b", "i", "a", "s">>
s_input_bias == <<"i", "n", "p", "u", "t", "_", "b", "i", "a", "s">>
s_recurrent_bias == <<"r", "e", "c", "u", "r", "r", "e", "n", "t", "_", "b", "i", "a", "s">>
s_us == <<"_">>
s_i == <<"i">>
s_f == <<"f">>
s_c == <<"c">>
s_o == <<"o">>
s_z == <<"z">>
s_r == <<"r">>
s_h == <<"h">>
s_empty == <<>>
s_rnn == <<"r", "n", "n">>
s_nn_2 == <<"n", "n", "_", "2">>

\* `p in s` for Python strings.
IsSubstr(p, s) ==
    \E k \in 0..(Len(s) - Len(p)) : SubSeq(s, k + 1, k + Len(p)) = p

\* s.replace(old, '') : every non-overlapping occurrence, left to right.
RECURSIVE StrRemove(_, _)
StrRemove(s, old) ==
    IF Len(s) < Len(old) THEN s
    ELSE IF SubSeq(s, 1, Len(old)) = old
         THEN StrRemove(SubSeq(s, Len(old) + 1, Len(s)), old)
         ELSE <<Head(s)>> \o StrRemove(Tail(s), old)

\* ---------------------------------------------------------------- bounds
\* Highest version (number of updates) a cell's weights go through.
MaxVersion == 1

\* ---------------------------------------------------------------- values
\* Python values the accessors handle.  A tensor is a reference: it has an
\* identity (which cell of which layer, which attribute created it) and no
\* content of its own.  An array is content: the numbers a tensor held at
\* one version of the cell's weights.
None == [tag |-> "None", id |-> <<>>, ver |-> 0]
Tensor(id) == [tag |-> "tensor", id |-> id, ver |-> 0]
Array(id, v) == [tag |-> "array", id |-> id, ver |-> v]

Return(v) == [kind |-> "return", value |-> v]
Raise(e) == [kind |-> "raise", value |-> e]

\* ------------------------------------------------- the host framework
\* The program owns no data: it reads layer and cell objects that Keras
\* built.  The model keeps, per layer of the model, what decides the shape
\* of those objects (class, Bidirectional wrapper or not, use_bias) and
\* derives the objects, with the attributes Keras gives them, from it.
VARIABLES
    TF_KERAS,   \* the module constant of line 7, fixed at import
    layers,     \* model.layers: the descriptors of the model's layers
    version,    \* per cell, how often its weights were updated so far
    held        \* the last call: its arguments, what it returned or raised

vars == <<TF_KERAS, layers, version, held>>

NonCuDNNKinds == {s_SimpleRNN, s_IndRNN, s_LSTM, s_GRU}
CuDNNKinds == {s_CuDNNLSTM, s_CuDNNGRU}
RNNKinds == NonCuDNNKinds \cup CuDNNKinds

\* Keras' own per-gate suffixes of a layer class, in the order its build
\* method creates the slices.
HostGates(kind) ==
    IF kind \in {s_LSTM, s_CuDNNLSTM} THEN <<s_i, s_f, s_c, s_o>>
    ELSE IF kind \in {s_GRU, s_CuDNNGRU} THEN <<s_z, s_r, s_h>>
    ELSE <<>>

\* The attributes holding weights of a cell (of the layer itself for CuDNN
\* classes), as <<name, value>> pairs in creation order (the order of the
\* object's __dict__).  key = <<position in model.layers, direction>>
\* identifies the cell; a tensor's identity is the cell and the attribute
\* that created it.  Keras (not tf.keras) also stores the per-gate slices
\* of each weight; without a bias the bias attributes exist and are None.
\* GRUCell names its bias slices input_bias_<g>, and input_bias is the bias
\* variable itself; the CuDNN classes have no use_bias and always a bias,
\* sliced as bias_<g>_i and bias_<g>.
HostAttrSeq(kind, use_bias, key) ==
    LET T(n) == Tensor(<<key, n>>)
        hasBias == kind \in CuDNNKinds \/ use_bias
        base == << <<s_kernel, T(s_kernel)>>,
                   <<s_recurrent_kernel, T(s_recurrent_kernel)>>,
                   <<s_bias, IF hasBias THEN T(s_bias) ELSE None>> >>
        G == IF TF_KERAS THEN <<>> ELSE HostGates(kind)
        Sl(w, g) == w \o s_us \o G[g]
        slices(w) == [g \in 1..Len(G) |-> <<Sl(w, g), T(Sl(w, g))>>]
        optional(w) == [g \in 1..Len(G) |->
                          <<Sl(w, g), IF use_bias THEN T(Sl(w, g)) ELSE None>>]
        nones(w) == [g \in 1..Len(G) |-> <<Sl(w, g), None>>]
        cudnn_i == [g \in 1..Len(G) |->
                      <<Sl(s_bias, g) \o s_us \o s_i,
                        T(Sl(s_bias, g) \o s_us \o s_i)>>]
        gru_bias == IF use_bias /\ G # <<>>
                    THEN << <<s_input_bias, T(s_bias)>>,
                            <<s_recurrent_bias, None>> >>
                    ELSE <<>>
    IN  IF kind = s_LSTM
        THEN base \o slices(s_kernel) \o slices(s_recurrent_kernel)
                  \o optional(s_bias)
        ELSE IF kind = s_GRU
        THEN base \o gru_bias \o slices(s_kernel)
                  \o slices(s_recurrent_kernel)
                  \o optional(s_input_bias) \o nones(s_recurrent_bias)
        ELSE IF kind \in CuDNNKinds
        THEN base \o slices(s_kernel) \o slices(s_recurrent_kernel)
                  \o cudnn_i \o slices(s_bias)
        ELSE base

\* obj.__dict__, restricted to the weight attributes: name -> value.
HostAttrs(kind, use_bias, key) ==
    LET ps == HostAttrSeq(kind, use_bias, key)
    IN  [n \in {ps[k][1] : k \in 1..Len(ps)} |->
            ps[CHOOSE k \in 1..Len(ps) : ps[k][1] = n][2]]

\* The names of obj.__dict__ in creation order.
HostAttrOrder(kind, use_bias, key) ==
    LET ps == HostAttrSeq(kind, use_bias, key)
    IN  [k \in 1..Len(ps) |-> ps[k][1]]

\* layer.weights / cell.weights: the variables, in creation order.
HostWeights(kind, use_bias, key) ==
    LET T(n) == Tensor(<<key, n>>)
    IN  <<T(s_kernel), T(s_recurrent_kernel)>>
        \o (IF kind \in CuDNNKinds \/ use_bias THEN <<T(s_bias)>> ELSE <<>>)

\* A cell object: class <kind>Cell, with use_bias.
CellObj(kind, use_bias, key) ==
    [ cls |-> kind \o s_Cell, use_bias |-> use_bias,
      attrs |-> HostAttrs(kind, use_bias, key),
      order |-> HostAttrOrder(kind, use_bias, key),
      weights |-> HostWeights(kind, use_bias, key) ]

\* An RNN layer object that is not wrapped: a CuDNN layer holds the
\* weights itself and has neither cell nor use_bias; any other RNN layer
\* holds a cell.
PlainLayerObj(kind, use_bias, key) ==
    IF kind \in CuDNNKinds
    THEN [ cls |-> kind,
           attrs |-> HostAttrs(kind, use_bias, key),
           order |-> HostAttrOrder(kind, use_bias, key),
           weights |-> HostWeights(kind, use_bias, key) ]
    ELSE [ cls |-> kind, cell |-> CellObj(kind, use_bias, key) ]

\* The layer object at position p of model.layers.
LayerObj(p) ==
    LET d == layers[p]
    IN  IF d.kind = s_Dense THEN [ cls |-> s_Dense, name |-> d.name ]
        ELSE IF d.bidir
        THEN [ cls |-> s_Bidirectional, name |-> d.name,
               layer |-> PlainLayerObj(d.kind, d.use_bias, <<p, "f">>),
               forward_layer |-> PlainLayerObj(d.kind, d.use_bias, <<p, "f">>),
               backward_layer |-> PlainLayerObj(d.kind, d.use_bias, <<p, "b">>) ]
        ELSE PlainLayerObj(d.kind, d.use_bias, <<p, "u">>) @@ [ name |-> d.name ]

\* The cells of the model: the keys `version` is defined on.
CellKeys(ls) ==
    UNION { IF ls[p].kind = s_Dense THEN {}
            ELSE IF ls[p].bidir THEN {<<p, "f">>, <<p, "b">>}
            ELSE {<<p, "u">>} : p \in 1..Len(ls) }

\* hasattr(obj, name) for the attributes the code names literally.
hasattr(obj, name) == name \in DOMAIN obj

\* ------------------------------------------------- framework calls
\* getattr(obj, name) on a weight attribute: AttributeError when absent.
getattr(obj, name) ==
    IF "attrs" \in DOMAIN obj /\ name \in DOMAIN obj.attrs
    THEN Return(obj.attrs[name])
    ELSE Raise("AttributeError")

\* K.eval(x): the content of tensor x now; None has nothing to evaluate.
K_eval(x) ==
    IF x.tag = "tensor" THEN Return(Array(x.id, version[x.id[1]]))
    ELSE Raise("AttributeError")

\* Variant of get_weights that hands out the variables themselves.
get_weights_live(rnn_cell) ==
    rnn_cell.weights

\* rnn_cell.get_weights(), and K.batch_get_value(rnn_cell.weights) when
\* that fails: the contents of the cell's variables now.
get_weights(rnn_cell) ==
    [k \in 1..Len(rnn_cell.weights) |->
        Array(rnn_cell.weights[k].id, version[rnn_cell.weights[k].id[1]])]

\* A list built element by element: the first exception ends it.
Collect(outs) ==
    IF \E k \in 1..Len(outs) : outs[k].kind = "raise"
    THEN outs[CHOOSE k \in 1..Len(outs) :
                 /\ outs[k].kind = "raise"
                 /\ \A j \in 1..(k - 1) : outs[j].kind # "raise"]
    ELSE Return([k \in 1..Len(outs) |-> outs[k].value])

\* ------------------------------------------------- _get_cell_info
\* Variant of gate_names_of with the LSTM gates in another order.
gate_names_of_reordered(rnn_type) ==
    IF rnn_type \in {s_SimpleRNN, s_IndRNN} THEN Return(<<s_empty>>)
    ELSE IF rnn_type \in {s_LSTM, s_CuDNNLSTM}
         THEN Return(<<s_i, s_f, s_o, s_c>>)
    ELSE IF rnn_type \in {s_GRU, s_CuDNNGRU}
         THEN Return(<<s_z, s_r, s_h>>)
    ELSE Raise("UnboundLocalError")

\* Lines 64-69: the gate suffixes of an RNN type; no branch binds
\* gate_names for any other type.
gate_names_of(rnn_type) ==
    IF rnn_type \in {s_SimpleRNN, s_IndRNN} THEN Return(<<s_empty>>)
    ELSE IF rnn_type \in {s_LSTM, s_CuDNNLSTM}
         THEN Return(<<s_i, s_f, s_c, s_o>>)
    ELSE IF rnn_type \in {s_GRU, s_CuDNNGRU}
         THEN Return(<<s_z, s_r, s_h>>)
    ELSE Raise("UnboundLocalError")

\* Lines 71-74: use_bias is read only when the type is not CuDNN.
kernel_types_of(rnn_type, rnn_cell) ==
    IF IsSubstr(s_CuDNN, rnn_type)
    THEN Return(<<s_kernel, s_recurrent_kernel, s_bias>>)
    ELSE IF ~hasattr(rnn_cell, "use_bias") THEN Raise("AttributeError")
    ELSE IF rnn_cell.use_bias
         THEN Return(<<s_kernel, s_recurrent_kernel, s_bias>>)
         ELSE Return(<<s_kernel, s_recurrent_kernel>>)

\* Lines 61-76.  The kernel types are computed (and may raise) before the
\* return statement reads gate_names.
_get_cell_info(rnn_cell) ==
    LET rnn_type == StrRemove(rnn_cell.cls, s_Cell)
        g == gate_names_of(rnn_type)
        k == kernel_types_of(rnn_type, rnn_cell)
    IN  IF k.kind = "raise" THEN k
        ELSE IF g.kind = "raise" THEN g
        ELSE Return([rnn_type |-> rnn_type, gate_names |-> g.value,
                     kernel_types |-> k.value])

\* ------------------------------------------------- _get_cell_weights
\* Lines 80-87: concat_gates as used, after the two overrides.
concat_gates_used(concat_gates, gate_names) ==
    LET c1 == IF TF_KERAS /\ ~concat_gates THEN TRUE ELSE concat_gates
    IN  IF ~c1 /\ gate_names[1] = s_empty THEN TRUE ELSE c1

\* Lines 80-87: the warnings printed on the way.
warnings_printed(concat_gates, gate_names) ==
    LET c1 == IF TF_KERAS /\ ~concat_gates THEN TRUE ELSE concat_gates
    IN  (IF TF_KERAS /\ ~concat_gates THEN <<"tf.keras">> ELSE <<>>)
        \o (IF ~c1 /\ gate_names[1] = s_empty THEN <<"not gated">> ELSE <<>>)

\* Variant of concat_weights that evaluates the weights whatever
\* as_tensors says.
concat_weights_copies(rnn_cell, as_tensors, kernel_types) ==
    Return(get_weights(rnn_cell))

\* Lines 89-95: the concatenated branch.
concat_weights(rnn_cell, as_tensors, kernel_types) ==
    IF as_tensors
    THEN Collect([k \in 1..Len(kernel_types) |->
                     getattr(rnn_cell, kernel_types[k])])
    ELSE Return(get_weights(rnn_cell))

\* Lines 97-98: the kernel types of the per-gate branch.
per_gate_kernel_types(rnn_type, kernel_types) ==
    IF IsSubstr(s_GRU, rnn_type)
    THEN <<s_kernel, s_recurrent_kernel, s_input_bias>>
    ELSE kernel_types

\* Lines 99-103: one list per kernel type, one attribute per gate; the
\* first missing attribute raises.
per_gate_tensors(rnn_cell, kernel_types, gate_names) ==
    LET row(w) == Collect([g \in 1..Len(gate_names) |->
                    getattr(rnn_cell, kernel_types[w] \o s_us \o gate_names[g])])
    IN  Collect([w \in 1..Len(kernel_types) |-> row(w)])

\* Lines 105-112: the tensors themselves, or each one evaluated.
per_gate_result(rnn_weights, as_tensors) ==
    IF as_tensors THEN Return(rnn_weights)
    ELSE Collect([w \in 1..Len(rnn_weights) |->
            Collect([g \in 1..Len(rnn_weights[w]) |->
                        K_eval(rnn_weights[w][g])])])

\* Lines 55-112.
_get_cell_weights(rnn_cell, as_tensors, concat_gates) ==
    LET info == _get_cell_info(rnn_cell)
    IN  IF info.kind = "raise" THEN info
        ELSE
        LET i == info.value
        IN  IF concat_gates_used(concat_gates, i.gate_names)
            THEN concat_weights(rnn_cell, as_tensors, i.kernel_types)
            ELSE
            LET t == per_gate_tensors(rnn_cell,
                        per_gate_kernel_types(i.rnn_type, i.kernel_types),
                        i.gate_names)
            IN  IF t.kind = "raise" THEN t
                ELSE per_gate_result(t.value, as_tensors)

\* ------------------------------------------------- collaborators
\* An optional argument is <<>> (None) or <<v>>.
\* utils._validate_args: one and only one way of naming the layer.
_validate_args(layer_name, layer_idx, layer) ==
    IF (layer_name = <<>> /\ layer_idx = <<>> /\ layer = <<>>)
       \/ (layer_name # <<>> /\ layer_idx # <<>>)
    THEN Raise("Exception") ELSE Return(None)

\* inspect_gen.get_layer: model.layers[layer_idx], or the earliest layer
\* whose name contains layer_name.
get_layer(model, layer_name, layer_idx) ==
    IF layer_idx # <<>>
    THEN IF layer_idx[1] + 1 \in 1..Len(model)
         THEN Return(model[layer_idx[1] + 1]) ELSE Raise("IndexError")
    ELSE LET hits == {p \in 1..Len(model) :
                         IsSubstr(layer_name[1], model[p].name)}
         IN  IF hits = {} THEN Raise("Exception")
             ELSE Return(model[CHOOSE p \in hits : \A q \in hits : p <= q])

\* utils._validate_rnn_type(layer, return_value=True): the class name of
\* the layer (of the wrapped layer, for a Bidirectional), which must be a
\* supported RNN.
_validate_rnn_type(layer) ==
    LET rnn_type == IF hasattr(layer, "backward_layer")
                    THEN layer.layer.cls ELSE layer.cls
    IN  IF rnn_type \in {s_LSTM, s_GRU, s_CuDNNLSTM, s_CuDNNGRU,
                         s_SimpleRNN, s_IndRNN}
        THEN Return(rnn_type) ELSE Raise("Exception")

\* ------------------------------------------------- get_rnn_weights
\* Variant of resolve_layer that looks the layer up whenever a name or an
\* index is given.
resolve_layer_lookup_first(model, layer_name, layer_idx, layer) ==
    IF layer = <<>> \/ layer_name # <<>> \/ layer_idx # <<>>
    THEN [out |-> get_layer(model, layer_name, layer_idx), lookups |-> 1]
    ELSE [out |-> Return(layer[1]), lookups |-> 0]

\* Lines 35-36: the layer used, and how often get_layer was called.
resolve_layer(model, layer_name, layer_idx, layer) ==
    IF layer = <<>>
    THEN [out |-> get_layer(model, layer_name, layer_idx), lookups |-> 1]
    ELSE [out |-> Return(layer[1]), lookups |-> 0]

\* Lines 42, 43 and 51: the object holding the weights of layer l.
cell_of(l, IS_CUDNN) ==
    IF IS_CUDNN THEN Return(l)
    ELSE IF hasattr(l, "cell") THEN Return(l.cell)
    ELSE Raise("AttributeError")

\* Variant of layer_weights that puts the backward cell's weights first.
layer_weights_backward_first(layer, IS_CUDNN, as_tensors, concat_gates) ==
    IF hasattr(layer, "backward_layer")
    THEN LET fc == cell_of(layer.forward_layer, IS_CUDNN)
             bc == cell_of(layer.backward_layer, IS_CUDNN)
         IN  IF fc.kind = "raise" THEN fc
             ELSE IF bc.kind = "raise" THEN bc
             ELSE
             LET fw == _get_cell_weights(fc.value, as_tensors, concat_gates)
                 bw == _get_cell_weights(bc.value, as_tensors, concat_gates)
             IN  IF fw.kind = "raise" THEN fw
                 ELSE IF bw.kind = "raise" THEN bw
                 ELSE Return(bw.value \o fw.value)
    ELSE LET c == cell_of(layer, IS_CUDNN)
         IN  IF c.kind = "raise" THEN c
             ELSE _get_cell_weights(c.value, as_tensors, concat_gates)

\* Lines 40-52.
layer_weights(layer, IS_CUDNN, as_tensors, concat_gates) ==
    IF hasattr(layer, "backward_layer")
    THEN LET fc == cell_of(layer.forward_layer, IS_CUDNN)
             bc == cell_of(layer.backward_layer, IS_CUDNN)
         IN  IF fc.kind = "raise" THEN fc
             ELSE IF bc.kind = "raise" THEN bc
             ELSE
             LET fw == _get_cell_weights(fc.value, as_tensors, concat_gates)
                 bw == _get_cell_weights(bc.value, as_tensors, concat_gates)
             IN  IF fw.kind = "raise" THEN fw
                 ELSE IF bw.kind = "raise" THEN bw
                 ELSE Return(fw.value \o bw.value)
    ELSE LET c == cell_of(layer, IS_CUDNN)
         IN  IF c.kind = "raise" THEN c
             ELSE _get_cell_weights(c.value, as_tensors, concat_gates)

\* Lines 17-52.  model is the sequence of the model's layer objects.
get_rnn_weights(model, layer_name, layer_idx, layer, as_tensors, concat_gates) ==
    LET v == _validate_args(layer_name, layer_idx, layer)
        r == resolve_layer(model, layer_name, layer_idx, layer)
    IN  IF v.kind = "raise" THEN v @@ [lookups |-> 0]
        ELSE IF r.out.kind = "raise" THEN r.out @@ [lookups |-> r.lookups]
        ELSE
        LET t == _validate_rnn_type(r.out.value)
        IN  IF t.kind = "raise" THEN t @@ [lookups |-> r.lookups]
            ELSE layer_weights(r.out.value, IsSubstr(s_CuDNN, t.value),
                               as_tensors, concat_gates)
                 @@ [lookups |-> r.lookups]

\* ------------------------------------------------- rnn_summary
\* Lines 121-128: the cells to print.
summary_cells(layer) ==
    IF hasattr(layer, "backward_layer")
    THEN LET ls == <<layer.forward_layer, layer.backward_layer>>
         IN  IF IsSubstr(s_CuDNN, ls[1].cls) THEN Return(ls)
             ELSE Collect([k \in 1..2 |-> cell_of(ls[k], FALSE)])
    ELSE LET IS_CUDNN == IsSubstr(s_CuDNN, layer.cls)
         IN  Collect(<<cell_of(layer, IS_CUDNN)>>)

\* Variant of summary_kernel_types that adds input_bias for every class
\* whose name contains GRU.
summary_kernel_types_any_gru(layer) ==
    <<s_kernel, s_recurrent_kernel, s_bias>>
    \o (IF IsSubstr(s_GRU, layer.cls) THEN <<s_input_bias>> ELSE <<>>)

\* Lines 137-139: the attribute names looked up on every cell.
summary_kernel_types(layer) ==
    <<s_kernel, s_recurrent_kernel, s_bias>>
    \o (IF layer.cls = s_GRU THEN <<s_input_bias>> ELSE <<>>)

\* Lines 142-150 for one kernel type: the line of the weight when the
\* attribute is there and not None; outside tf.keras, one line per
\* attribute named <kernel_type>_<one character>, whose value must have
\* a shape, and an empty line.
summary_lines(rnn_cell, kernel_type) ==
    LET has == "attrs" \in DOMAIN rnn_cell
        w == IF has /\ kernel_type \in DOMAIN rnn_cell.attrs
             THEN rnn_cell.attrs[kernel_type] ELSE None
        wl == IF w # None THEN << <<"weight", w.id>> >> ELSE <<>>
        match(key) == /\ IsSubstr(kernel_type \o s_us, key)
                      /\ Len(key) = Len(kernel_type) + 2
        keys == IF has THEN SelectSeq(rnn_cell.order, match) ELSE <<>>
        bad == {k \in 1..Len(keys) : rnn_cell.attrs[keys[k]] = None}
        upto == IF bad = {} THEN Len(keys)
                ELSE (CHOOSE k \in bad : \A j \in bad : k <= j) - 1
        gl == [k \in 1..upto |-> <<"gate", keys[k]>>]
    IN  IF TF_KERAS THEN [kind |-> "return", printed |-> wl]
        ELSE IF bad # {} THEN [kind |-> "raise", printed |-> wl \o gl]
        ELSE [kind |-> "return", printed |-> wl \o gl \o << <<"">> >>]

\* Lines 141-150 for one cell: kernel types in order, up to the first
\* exception.  looked_up lists the kernel types reached.
RECURSIVE summary_cell(_, _)
summary_cell(rnn_cell, kernel_types) ==
    IF kernel_types = <<>>
    THEN [kind |-> "return", printed |-> <<>>, looked_up |-> <<>>]
    ELSE LET h == summary_lines(rnn_cell, Head(kernel_types))
             t == summary_cell(rnn_cell, Tail(kernel_types))
         IN  IF h.kind = "raise"
             THEN h @@ [looked_up |-> <<Head(kernel_types)>>]
             ELSE [kind |-> t.kind, printed |-> h.printed \o t.printed,
                   looked_up |-> <<Head(kernel_types)>> \o t.looked_up]

\* Lines 130-150: cell after cell; looked_up has one list per cell reached.
RECURSIVE summary_loop(_, _, _, _)
summary_loop(layer, rnn_cells, idx, n) ==
    IF idx > n
    THEN [kind |-> "return", printed |-> <<>>, looked_up |-> <<>>]
    ELSE LET hd == IF n = 2
                   THEN IF idx = 1 THEN << <<"// FORWARD LAYER">> >>
                        ELSE << <<"// BACKWARD LAYER">> >>
                   ELSE <<>>
             c == summary_cell(rnn_cells[idx], summary_kernel_types(layer))
             t == summary_loop(layer, rnn_cells, idx + 1, n)
         IN  IF c.kind = "raise"
             THEN [kind |-> "raise", printed |-> hd \o c.printed,
                   looked_up |-> <<c.looked_up>>]
             ELSE [kind |-> t.kind, printed |-> hd \o c.printed \o t.printed,
                   looked_up |-> <<c.looked_up>> \o t.looked_up]

\* Lines 115-150.
rnn_summary(layer) ==
    LET cs == summary_cells(layer)
    IN  IF cs.kind = "raise"
        THEN [kind |-> "raise", printed |-> <<>>, looked_up |-> <<>>]
        ELSE summary_loop(layer, cs.value, 1, Len(cs.value))

\* ------------------------------------------------- the state machine
\* Every supported RNN layer, wrapped in a Bidirectional or not.  A CuDNN
\* layer has no use_bias; its descriptor carries TRUE.
RNNLayers ==
    [kind : NonCuDNNKinds, bidir : BOOLEAN, use_bias : BOOLEAN,
     trainable : {TRUE}]
    \cup [kind : CuDNNKinds, bidir : BOOLEAN, use_bias : {TRUE},
          trainable : {TRUE}]

\* What else the model may hold next to the RNN layer inspected: a layer
\* that is no RNN, or a second RNN layer, frozen (trainable=False: its
\* weights are never updated).
OtherLayers ==
    { [kind |-> s_Dense, bidir |-> FALSE, use_bias |-> TRUE,
       trainable |-> FALSE],
      [kind |-> s_LSTM, bidir |-> FALSE, use_bias |-> TRUE,
       trainable |-> FALSE] }

\* Layers are named by position: rnn_1, rnn_2.
Named(ds) ==
    [p \in 1..Len(ds) |->
        ds[p] @@ [name |-> s_rnn \o s_us \o <<IF p = 1 THEN "1" ELSE "2">>]]

Models ==
    { Named(<<x>>) : x \in RNNLayers }
    \cup { Named(<<x, o>>) : x \in RNNLayers, o \in OtherLayers }
    \cup { Named(<<o, x>>) : x \in RNNLayers, o \in OtherLayers }

\* The arguments tried.
LayerNames == {<<>>, <<s_nn_2>>}
LayerIdxs == {<<>>, <<0>>, <<1>>}

\* model.layers as objects.
ModelObj == [p \in 1..Len(layers) |-> LayerObj(p)]

\* The object _get_cell_weights is to be given for the cell at key: the
\* layer itself for a CuDNN layer, the layer's cell otherwise.
HostCell(key) ==
    LET d == layers[key[1]]
    IN  IF d.kind \in CuDNNKinds
        THEN PlainLayerObj(d.kind, d.use_bias, key)
        ELSE CellObj(d.kind, d.use_bias, key)

NoCall == [op |-> "none"]

Init ==
    /\ TF_KERAS \in BOOLEAN
    /\ layers \in Models
    /\ version = [c \in CellKeys(layers) |-> 0]
    /\ held = NoCall

\* The host trains or sets the weights of one cell of a trainable layer.
Update ==
    \E c \in DOMAIN version :
        /\ layers[c[1]].trainable
        /\ version[c] < MaxVersion
        /\ version' = [version EXCEPT ![c] = @ + 1]
        /\ UNCHANGED <<TF_KERAS, layers, held>>

\* A call of get_rnn_weights; the caller keeps what it returned (held)
\* until it discards it, while the host may go on updating the weights.
GetRnnWeights ==
    \E layer_name \in LayerNames, layer_idx \in LayerIdxs,
       lp \in {<<>>} \cup {<<p>> : p \in 1..Len(layers)},
       as_tensors \in BOOLEAN, concat_gates \in BOOLEAN :
        LET layer == IF lp = <<>> THEN <<>> ELSE <<LayerObj(lp[1])>>
            out == get_rnn_weights(ModelObj, layer_name, layer_idx, layer,
                                   as_tensors, concat_gates)
        IN  /\ held = NoCall
            /\ held' = [op |-> "get_rnn_weights", layer_name |-> layer_name,
                        layer_idx |-> layer_idx, layer |-> lp,
                        as_tensors |-> as_tensors,
                        concat_gates |-> concat_gates,
                        out |-> out, at |-> version]
            /\ UNCHANGED <<TF_KERAS, layers, version>>

\* Variant of GetCellWeights in which fetching the weights also steps
\* the cell's weights.
GetCellWeights_updating ==
    \E c \in CellKeys(layers), as_tensors \in BOOLEAN,
       concat_gates \in BOOLEAN :
        LET rnn_cell == HostCell(c)
            info == _get_cell_info(rnn_cell)
        IN  /\ held = NoCall
            /\ held' = [op |-> "_get_cell_weights", cell |-> c,
                        as_tensors |-> as_tensors,
                        concat_gates |-> concat_gates, info |-> info,
                        out |-> _get_cell_weights(rnn_cell, as_tensors,
                                                  concat_gates),
                        printed |-> IF info.kind = "raise" THEN <<>>
                                    ELSE warnings_printed(concat_gates,
                                            info.value.gate_names),
                        at |-> version]
            /\ version' = [version EXCEPT
                              ![c] = IF @ < MaxVersion THEN @ + 1 ELSE @]
            /\ UNCHANGED <<TF_KERAS, layers>>

\* A call of _get_cell_weights on one of the model's cells.
GetCellWeights ==
    \E c \in CellKeys(layers), as_tensors \in BOOLEAN,
       concat_gates \in BOOLEAN :
        LET rnn_cell == HostCell(c)
            info == _get_cell_info(rnn_cell)
        IN  /\ held = NoCall
            /\ held' = [op |-> "_get_cell_weights", cell |-> c,
                        as_tensors |-> as_tensors,
                        concat_gates |-> concat_gates, info |-> info,
                        out |-> _get_cell_weights(rnn_cell, as_tensors,
                                                  concat_gates),
                        printed |-> IF info.kind = "raise" THEN <<>>
                                    ELSE warnings_printed(concat_gates,
                                            info.value.gate_names),
                        at |-> version]
            /\ UNCHANGED <<TF_KERAS, layers, version>>

\* A call of rnn_summary on one of the model's layers.
RnnSummary ==
    \E p \in 1..Len(layers) :
        /\ held = NoCall
        /\ held' = [op |-> "rnn_summary", layer |-> p,
                    out |-> rnn_summary(LayerObj(p)), at |-> version]
        /\ UNCHANGED <<TF_KERAS, layers, version>>

\* The caller lets go of the result it kept; the next call can follow.
Discard ==
    /\ held # NoCall
    /\ held' = NoCall
    /\ UNCHANGED <<TF_KERAS, layers, version>>

Next == Update \/ GetRnnWeights \/ GetCellWeights \/ RnnSummary \/ Discard

Spec == Init /\ [][Next]_vars

\* ------------------------------------------------- properties
GatedKinds == {s_LSTM, s_GRU, s_CuDNNLSTM, s_CuDNNGRU}

\* The per-gate branch is taken: concat_gates=False, a gated cell, and not
\* tf.keras.
PerGateMode(kind, concat_gates) ==
    ~concat_gates /\ ~TF_KERAS /\ kind \in GatedKinds

\* The gate order of a kind, as the documentation of the RNN types has it.
GateOrder(kind) ==
    IF kind \in {s_LSTM, s_CuDNNLSTM} THEN <<s_i, s_f, s_c, s_o>>
    ELSE IF kind \in {s_GRU, s_CuDNNGRU} THEN <<s_z, s_r, s_h>>
    ELSE <<s_empty>>

RECURSIVE Flatten(_)
Flatten(ss) == IF ss = <<>> THEN <<>> ELSE Head(ss) \o Flatten(Tail(ss))

IsPrefix(a, b) == Len(a) <= Len(b) /\ SubSeq(b, 1, Len(a)) = a

\* The cells of the layer at position p, forward first.
CellsOf(p) ==
    IF layers[p].bidir THEN << <<p, "f">>, <<p, "b">> >> ELSE << <<p, "u">> >>

CellCall == held.op = "_get_cell_weights"
LayerCall == held.op = "get_rnn_weights"
SummaryCall == held.op = "rnn_summary"

\* The layer argument of the held get_rnn_weights call, as passed.
HeldLayerArg ==
    IF held.layer = <<>> THEN <<>> ELSE <<LayerObj(held.layer[1])>>

\* The held get_rnn_weights call got past validation and layer resolution
\* to a supported RNN layer.
LayerCallResolved ==
    /\ LayerCall
    /\ _validate_args(held.layer_name, held.layer_idx, HeldLayerArg).kind
          = "return"
    /\ LET r == resolve_layer(ModelObj, held.layer_name, held.layer_idx,
                              HeldLayerArg).out
       IN  r.kind = "return" /\ _validate_rnn_type(r.value).kind = "return"

\* The position in model.layers of the layer that call used.
UsedPos ==
    LET r == resolve_layer(ModelObj, held.layer_name, held.layer_idx,
                           HeldLayerArg).out
    IN  CHOOSE p \in 1..Len(layers) : LayerObj(p) = r.value

\* The weight values of a returned result, one by one.
Leaves ==
    LET kind == IF CellCall THEN layers[held.cell[1]].kind
                ELSE layers[UsedPos].kind
    IN  IF PerGateMode(kind, held.concat_gates)
        THEN Flatten(held.out.value) ELSE held.out.value

Outcome(out) == [kind |-> out.kind, value |-> out.value]

\* C1: _get_cell_weights with as_tensors=True and concat_gates=True
\* returns the cell's own weight objects (the tensors held in its
\* attributes, not copies), in the order kernel, recurrent_kernel, bias;
\* bias is there exactly when the type name contains CuDNN or use_bias is
\* true.
C1_OwnWeights ==
    (CellCall /\ held.as_tensors /\ held.concat_gates) =>
        LET c == HostCell(held.cell)
            biased == IF IsSubstr(s_CuDNN, c.cls) THEN TRUE ELSE c.use_bias
            own == <<c.attrs[s_kernel], c.attrs[s_recurrent_kernel]>>
                   \o (IF biased THEN <<c.attrs[s_bias]>> ELSE <<>>)
        IN  /\ held.out = Return(own)
            /\ \A k \in 1..Len(own) : own[k].tag = "tensor"

C1_Witness ==
    /\ CellCall /\ held.as_tensors /\ held.concat_gates
    /\ held.out.kind = "return"
    /\ Len(held.out.value) = 2
    /\ layers[held.cell[1]].kind = s_GRU

\* C2: what get_rnn_weights / _get_cell_weights return with
\* as_tensors=False are snapshots: arrays holding the values of the call's
\* moment, whatever updates follow; what they return with as_tensors=True
\* are references, whose content is the weights' current content.
C2_Snapshots ==
    ((CellCall \/ LayerCall) /\ held.out.kind = "return") =>
        LET L == Leaves
        IN  /\ Len(L) > 0
            /\ \A k \in 1..Len(L) :
                IF held.as_tensors
                THEN /\ L[k].tag # "array"
                     /\ L[k].tag = "tensor" =>
                            K_eval(L[k]).value.ver = version[L[k].id[1]]
                ELSE /\ L[k].tag = "array"
                     /\ L[k].ver = held.at[L[k].id[1]]

C2_Witness ==
    /\ LayerCall /\ held.out.kind = "return" /\ ~held.as_tensors
    /\ \E k \in 1..Len(Leaves) :
          Leaves[k].ver < version[Leaves[k].id[1]]

C4_CellInfo ==
    CellCall =>
        LET d == layers[held.cell[1]]
            biased == d.kind \in CuDNNKinds \/ d.use_bias
        IN  /\ held.info.kind = "return"
            /\ held.info.value.rnn_type = d.kind
            /\ held.info.value.gate_names = GateOrder(d.kind)
            /\ held.info.value.kernel_types =
                  IF biased THEN <<s_kernel, s_recurrent_kernel, s_bias>>
                  ELSE <<s_kernel, s_recurrent_kernel>>
            /\ \A c \in CellKeys(layers) :
                  (/\ layers[c[1]].kind = d.kind
                   /\ layers[c[1]].use_bias = d.use_bias)
                  => _get_cell_info(HostCell(c)) = held.info

C4_Witness ==
    /\ CellCall
    /\ held.cell[2] = "b"
    /\ held.info.value.gate_names = <<s_i, s_f, s_c, s_o>>
    /\ Len(held.info.value.kernel_types) = 2

\* C5, as claimed: the kernel attribute names rnn_summary looks up on a
\* cell are the ones _get_cell_weights derives for that cell.
C5_SameKernelNames ==
    (SummaryCall /\ held.out.kind = "return") =>
        \A k \in 1..Len(held.out.looked_up) :
            held.out.looked_up[k] =
                _get_cell_info(HostCell(CellsOf(held.layer)[k]))
                    .value.kernel_types

\* C5, amended: rnn_summary has a list of its own: on every cell it looks
\* up kernel, recurrent_kernel and bias whatever use_bias is, and
\* input_bias too when the class of the layer it was given is GRU; the
\* names _get_cell_info derives for the cell are a prefix of that list.
C5_SummaryKernelNames ==
    (SummaryCall /\ held.out.kind = "return") =>
        LET d == layers[held.layer]
            cells == CellsOf(held.layer)
        IN  /\ Len(held.out.looked_up) = Len(cells)
            /\ \A k \in 1..Len(cells) :
                /\ held.out.looked_up[k] =
                      <<s_kernel, s_recurrent_kernel, s_bias>>
                      \o (IF d.kind = s_GRU /\ ~d.bidir
                          THEN <<s_input_bias>> ELSE <<>>)
                /\ IsPrefix(_get_cell_info(HostCell(cells[k]))
                                .value.kernel_types,
                            held.out.looked_up[k])

C5_Witness ==
    /\ SummaryCall /\ held.out.kind = "return"
    /\ layers[held.layer].kind = s_CuDNNGRU
    /\ layers[held.layer].bidir
    /\ Len(held.out.looked_up) = 2

\* C6: with concat_gates=False on a gated cell outside tf.keras,
\* _get_cell_weights returns one list per kernel type, each holding one
\* entry per gate in the gate order of the type, the entry for kernel type
\* k and gate g being the cell attribute k_g (its value when
\* as_tensors=False); with concat_gates=True each kernel type yields one
\* entry.  The kernel types are read as the ones the per-gate branch
\* names: input_bias in the place of bias for the GRU types.
C6_PerGateLists ==
    CellCall =>
        LET d == layers[held.cell[1]]
            c == HostCell(held.cell)
            kts == IF d.kind \in {s_GRU, s_CuDNNGRU}
                   THEN <<s_kernel, s_recurrent_kernel, s_input_bias>>
                   ELSE held.info.value.kernel_types
            gates == GateOrder(d.kind)
            v == held.out.value
            entry(x) == IF held.as_tensors THEN x
                        ELSE Array(x.id, held.at[held.cell])
        IN  IF PerGateMode(d.kind, held.concat_gates)
            THEN /\ held.out.kind = "return"
                 /\ Len(v) = Len(kts)
                 /\ \A w \in 1..Len(kts) :
                      /\ Len(v[w]) = Len(gates)
                      /\ \A g \in 1..Len(gates) :
                          LET n == kts[w] \o s_us \o gates[g]
                          IN  /\ n \in DOMAIN c.attrs
                              /\ v[w][g] = entry(c.attrs[n])
            ELSE held.concat_gates =>
                    /\ held.out.kind = "return"
                    /\ Len(v) = Len(held.info.value.kernel_types)

\* C7: a layer given to get_rnn_weights overrides layer_name and
\* layer_idx: when validation passes the layer is never looked up, and
\* the result is the one every other valid layer_name, layer_idx and
\* model give with that layer.
C7_LayerOverrides ==
    (/\ LayerCall
     /\ held.layer # <<>>
     /\ _validate_args(held.layer_name, held.layer_idx, HeldLayerArg).kind
           = "return") =>
        /\ held.out.lookups = 0
        /\ held.at = version =>
            \A ln \in LayerNames, li \in LayerIdxs,
               m \in {ModelObj, <<>>} :
                _validate_args(ln, li, HeldLayerArg).kind = "return" =>
                    get_rnn_weights(m, ln, li, HeldLayerArg,
                                    held.as_tensors, held.concat_gates)
                        = held.out

C7_Witness ==
    /\ LayerCall
    /\ held.layer = <<1>>
    /\ held.layer_idx = <<1>>
    /\ Len(layers) = 2
    /\ layers[2].kind = s_LSTM
    /\ layers[1].kind = s_GRU
    /\ held.out.kind = "return"

\* C8: in per-gate mode the number of kernel groups _get_cell_weights
\* returns is the number of kernel names of the description: three when
\* use_bias is true or the type is CuDNN, two when use_bias is false, for
\* GRU as for LSTM.
C8_GroupCount ==
    (/\ CellCall
     /\ PerGateMode(layers[held.cell[1]].kind, held.concat_gates)
     /\ held.out.kind = "return") =>
        LET d == layers[held.cell[1]]
        IN  /\ Len(held.out.value) = Len(held.info.value.kernel_types)
            /\ Len(held.out.value) =
                  IF d.kind \in CuDNNKinds \/ d.use_bias THEN 3 ELSE 2

\* C9: for a Bidirectional layer get_rnn_weights returns the forward
\* cell's weights followed by the backward cell's, both fetched with the
\* same as_tensors and concat_gates; for any other layer it returns what
\* _get_cell_weights returns.  The cell of a direction is the direction's
\* layer for a CuDNN type and that layer's cell otherwise.
C9_Bidirectional ==
    (LayerCallResolved /\ held.at = version) =>
        LET p == UsedPos
            W(dir) == _get_cell_weights(HostCell(<<p, dir>>),
                                        held.as_tensors, held.concat_gates)
        IN  IF layers[p].bidir
            THEN IF W("f").kind = "raise" THEN Outcome(held.out) = W("f")
                 ELSE IF W("b").kind = "raise"
                      THEN Outcome(held.out) = W("b")
                 ELSE /\ held.out.kind = "return"
                      /\ held.out.value = W("f").value \o W("b").value
                      /\ Len(held.out.value)
                            = Len(W("f").value) + Len(W("b").value)
            ELSE Outcome(held.out) = W("u")

C9_Witness ==
    /\ LayerCallResolved
    /\ layers[UsedPos].bidir
    /\ held.layer = <<>>
    /\ held.out.kind = "return"
    /\ Len(held.out.value) = 6
====
